---- MODULE Spec2Model ----
(***************************************************************************)
(* pydeltasnow: the gap / chunk / regularity utilities of utils.py and the *)
(* top-level operation swe_delta_snow of main.py.                          *)
(*                                                                         *)
(* Conventions.  Python arrays are sequences; Python's 0-based index i is  *)
(* position i+1 of the sequence (operator At).  Index lists returned by    *)
(* the code keep their 0-based Python values.  A depth is an integer       *)
(* number of depth quanta; the float NaN is the value NaN, for which       *)
(* x = 0, x >= 0 are false and x # 0 is true, as for the IEEE value.       *)
(* Timestamps are integers in minutes (datetime64 differences divided by   *)
(* ONE_HOUR give hours).                                                   *)
(***************************************************************************)
EXTENDS Integers, Sequences, FiniteSets, TLC

\* ------------------------------------------------------------------ bounds
MaxLen == 4          \* longest observation series drawn
MaxGap == 2          \* largest max_gap_length drawn

\* np.nan
NaN == -999
\* utils.py:15  ONE_HOUR = np.timedelta64(1, 'h'), in minutes
ONE_HOUR == 60
\* one day in minutes: the sampling step of a daily series (tests: freq='D')
Day == 1440

\* depth values an observation can take; NaN = missing.  Multiples of 12
\* quanta, so that linear interpolation over a short gap stays integral.
DepthValues == {NaN, 0, 12, 24}
\* consecutive timestamp differences drawn: daily and two-day steps
Steps == {Day, 2 * Day}
\* what a read of a float64 the code never wrote can deliver: the functions
\* are numba-compiled without bounds checking, so the read yields whatever
\* the memory holds (zero, a number that looks like a resolution, a NaN)
Uninit == {0, 24, NaN}

isnan(x) == x = NaN
\* float equality: NaN equals nothing, itself included
feq(a, b) == ~isnan(a) /\ ~isnan(b) /\ a = b

\* Python x[i]
At(s, i) == s[i + 1]
\* Python x[a:b] for 0 <= a
Slice(s, a, b) == SubSeq(s, a + 1, IF b > Len(s) THEN Len(s) ELSE b)
\* Python x[-1] .. : index i-1 with wraparound for i = 0
AtWrap(s, i) == IF i < 0 THEN s[Len(s) + i + 1] ELSE s[i + 1]

\* np.any(np.isnan(Hobs))
has_nan(H) == \E p \in 1..Len(H) : isnan(H[p])

\* mask[start_i:stop_i] = True for every zipped pair (utils.py 175-177, 243-245)
MaskFromRanges(n, starts, stops) ==
    [p \in 1..n |->
        \E j \in 1..Len(starts) :
            j <= Len(stops) /\ starts[j] <= p - 1 /\ p - 1 < stops[j]]

\* ------------------------------------------------- continuous_timedeltas
\* utils.py 38-40
tdeltas(dr) == [i \in 1..(Len(dr) - 1) |-> dr[i + 1] - dr[i]]

\* utils.py 43  np.all(tdeltas == tdeltas[0])
all_equal_first(td) == \A i \in 1..Len(td) : td[i] = td[1]

\* utils.py 17-49.  For len(dr) <= 1 the local `resolution` is returned
\* without ever being assigned: u is what that read delivers.
continuous_timedeltas(dr, u) ==
    IF Len(dr) <= 1
    THEN [continuous |-> TRUE, resolution |-> u]
    ELSE [continuous |-> all_equal_first(tdeltas(dr)),
          resolution |-> tdeltas(dr)[1] \div ONE_HOUR]

\* ------------------------------- continuous_timedeltas_in_nonzero_chunks
\* faulty variant: the chunks' resolutions are not compared with each other
continuous_timedeltas_in_nonzero_chunks_mut(dr, starts, stops, u) ==
    LET n == Len(starts)
        m == IF Len(stops) < n THEN Len(stops) ELSE n
        r(i) == continuous_timedeltas(Slice(dr, starts[i], stops[i]), u)
        cont == [i \in 1..n |-> IF i <= m THEN r(i).continuous ELSE FALSE]
        res == [i \in 1..n |-> IF i <= m THEN r(i).resolution ELSE 0]
        res0 == IF n = 0 THEN u ELSE res[1]
    IN  [continuous |-> \A i \in 1..n : cont[i],
         resolution |-> res0]
\* utils.py 78-85.  cont and res have len(start_idxs) entries, filled for the
\* zipped pairs; res[0] of an empty res is a read outside the array: u.
continuous_timedeltas_in_nonzero_chunks(dr, starts, stops, u) ==
    LET n == Len(starts)
        m == IF Len(stops) < n THEN Len(stops) ELSE n
        r(i) == continuous_timedeltas(Slice(dr, starts[i], stops[i]), u)
        cont == [i \in 1..n |-> IF i <= m THEN r(i).continuous ELSE FALSE]
        res == [i \in 1..n |-> IF i <= m THEN r(i).resolution ELSE 0]
        res0 == IF n = 0 THEN u ELSE res[1]
    IN  [continuous |-> (\A i \in 1..n : cont[i])
                        /\ (\A i \in 1..n : feq(res[i], res0)),
         resolution |-> res0]

\* ------------------------------------------------ get_nonzero_chunk_idxs
\* faulty variant: a rise out of zero starts the chunk at the first nonzero sample
ChunkStep_mut(H, i, st) ==
    LET n == Len(H)
        s1 == IF i < n - 1 /\ At(H, i) = 0 /\ At(H, i + 1) # 0
              THEN Append(st.start_idxs, i + 1) ELSE st.start_idxs
        s2 == IF i > 0 /\ At(H, i) = 0 /\ At(H, i - 1) # 0
              THEN Append(st.stop_idxs, i) ELSE st.stop_idxs
    IN  [start_idxs |-> s1, stop_idxs |-> s2]
\* utils.py 112-118: one pass of the loop body
ChunkStep(H, i, st) ==
    LET n == Len(H)
        s1 == IF i < n - 1 /\ At(H, i) = 0 /\ At(H, i + 1) # 0
              THEN Append(st.start_idxs, i) ELSE st.start_idxs
        s2 == IF i > 0 /\ At(H, i) = 0 /\ At(H, i - 1) # 0
              THEN Append(st.stop_idxs, i) ELSE st.stop_idxs
    IN  [start_idxs |-> s1, stop_idxs |-> s2]

RECURSIVE ChunkLoop(_, _, _)
ChunkLoop(H, i, st) ==
    IF i >= Len(H) THEN st ELSE ChunkLoop(H, i + 1, ChunkStep(H, i, st))

\* faulty variant: a chunk that runs to the end of the series stays open
close_last_chunk_mut(st, n) == st

\* utils.py 121-122: a chunk that runs to the end of the series stops at
\* len(Hobs)
close_last_chunk(st, n) ==
    [start_idxs |-> st.start_idxs,
     stop_idxs |-> IF Len(st.stop_idxs) < Len(st.start_idxs)
                   THEN Append(st.stop_idxs, n) ELSE st.stop_idxs]

\* utils.py 88-123
get_nonzero_chunk_idxs(H) ==
    LET init == [start_idxs |-> IF At(H, 0) # 0 THEN <<0>> ELSE <<>>,
                 stop_idxs |-> <<>>]
    IN  close_last_chunk(ChunkLoop(H, 0, init), Len(H))

\* ----------------------------------------------- get_zeropadded_gap_idxs
\* faulty variant: the gap flag is never cleared by a present value
ZeroPadStep_mut(H, i, st) ==
    LET n == Len(H)
        a == IF i = 0 /\ isnan(At(H, i))
             THEN [st EXCEPT !.start = i, !.gap = TRUE] ELSE st
        b == IF i > 0 /\ isnan(At(H, i)) /\ At(H, i - 1) = 0
             THEN [a EXCEPT !.start = i, !.gap = TRUE] ELSE a
        c == IF i < n - 1 /\ isnan(At(H, i)) /\ At(H, i + 1) = 0 /\ b.gap
             THEN [b EXCEPT !.start_idxs = Append(@, b.start),
                            !.stop_idxs = Append(@, i + 1)]
             ELSE b
    IN  c
\* utils.py 147-164: one pass of the loop body
ZeroPadStep(H, i, st) ==
    LET n == Len(H)
        a == IF i = 0 /\ isnan(At(H, i))
             THEN [st EXCEPT !.start = i, !.gap = TRUE] ELSE st
        b == IF i > 0 /\ isnan(At(H, i)) /\ At(H, i - 1) = 0
             THEN [a EXCEPT !.start = i, !.gap = TRUE] ELSE a
        c == IF i < n - 1 /\ isnan(At(H, i)) /\ At(H, i + 1) = 0 /\ b.gap
             THEN [b EXCEPT !.start_idxs = Append(@, b.start),
                            !.stop_idxs = Append(@, i + 1)]
             ELSE b
    IN  IF ~isnan(At(H, i)) THEN [c EXCEPT !.gap = FALSE] ELSE c

RECURSIVE ZeroPadLoop(_, _, _)
ZeroPadLoop(H, i, st) ==
    IF i >= Len(H) THEN st ELSE ZeroPadLoop(H, i + 1, ZeroPadStep(H, i, st))

\* utils.py 126-179: the function takes the depth vector and nothing else
get_zeropadded_gap_idxs(H) ==
    LET n == Len(H)
        init == [gap |-> FALSE, start |-> n, start_idxs |-> <<>>,
                 stop_idxs |-> <<>>]
        st == ZeroPadLoop(H, 0, init)
        k == Len(st.start_idxs)
        tail == st.gap /\ ((k > 0 /\ st.start # st.start_idxs[k])
                           \/ st.start < n)
        starts == IF tail THEN Append(st.start_idxs, st.start)
                  ELSE st.start_idxs
        stops == IF tail THEN Append(st.stop_idxs, n) ELSE st.stop_idxs
    IN  MaskFromRanges(n, starts, stops)

\* ---------------------------------------------------- get_small_gap_idxs
\* faulty variant: the timestamps around the gap are not checked
SmallGapStep_mut(H, dt, mgl, i, st) ==
    LET a == IF st.active_gap THEN [st EXCEPT !.gapl = @ + 1] ELSE st
        b == IF a.gapl > mgl THEN [a EXCEPT !.valid_gap = FALSE] ELSE a
        c == IF i > 0 /\ ~isnan(At(H, i - 1)) /\ isnan(At(H, i))
             THEN [b EXCEPT !.start = i, !.valid_gap = TRUE,
                            !.active_gap = TRUE]
             ELSE b
    IN  IF i < Len(H) /\ isnan(AtWrap(H, i - 1)) /\ ~isnan(At(H, i))
        THEN [(IF c.valid_gap
               THEN [c EXCEPT !.start_idxs = Append(@, c.start),
                              !.stop_idxs = Append(@, i)]
               ELSE c)
              EXCEPT !.gapl = 0, !.active_gap = FALSE, !.valid_gap = FALSE]
        ELSE c
\* utils.py 219-240: one pass of the loop body (Hobs[i-1] wraps for i = 0)
SmallGapStep(H, dt, mgl, i, st) ==
    LET a == IF st.active_gap THEN [st EXCEPT !.gapl = @ + 1] ELSE st
        b == IF a.gapl > mgl THEN [a EXCEPT !.valid_gap = FALSE] ELSE a
        c == IF i > 0 /\ ~isnan(At(H, i - 1)) /\ isnan(At(H, i))
             THEN [b EXCEPT !.start = i, !.valid_gap = TRUE,
                            !.active_gap = TRUE]
             ELSE b
    IN  IF i < Len(H) /\ isnan(AtWrap(H, i - 1)) /\ ~isnan(At(H, i))
        THEN [(IF c.valid_gap
                  /\ continuous_timedeltas(Slice(dt, c.start - 1, i + 1),
                                           0).continuous
               THEN [c EXCEPT !.start_idxs = Append(@, c.start),
                              !.stop_idxs = Append(@, i)]
               ELSE c)
              EXCEPT !.gapl = 0, !.active_gap = FALSE, !.valid_gap = FALSE]
        ELSE c

RECURSIVE SmallGapLoop(_, _, _, _, _)
SmallGapLoop(H, dt, mgl, i, st) ==
    IF i >= Len(H) THEN st
    ELSE SmallGapLoop(H, dt, mgl, i + 1, SmallGapStep(H, dt, mgl, i, st))

\* utils.py 182-247
get_small_gap_idxs(H, dt, mgl) ==
    LET init == [gapl |-> 0, active_gap |-> FALSE, valid_gap |-> FALSE,
                 start |-> Len(H), start_idxs |-> <<>>, stop_idxs |-> <<>>]
        st == SmallGapLoop(H, dt, mgl, 0, init)
    IN  MaskFromRanges(Len(H), st.start_idxs, st.stop_idxs)

\* ------------------------------------------------------- fill_small_gaps
\* pd.Series(Hobs).interpolate(method='linear') at 0-based position p:
\* linear between the nearest present neighbours, the last present value
\* after the last one, NaN before the first one.
interpolate_linear(H) ==
    LET n == Len(H)
        prev(p) == {a \in 1..p : ~isnan(H[a])}
        next(p) == {b \in p..n : ~isnan(H[b])}
        Max(S) == CHOOSE x \in S : \A y \in S : y <= x
        Min(S) == CHOOSE x \in S : \A y \in S : x <= y
    IN  [p \in 1..n |->
            IF ~isnan(H[p]) THEN H[p]
            ELSE IF prev(p) = {} THEN NaN
            ELSE IF next(p) = {} THEN H[Max(prev(p))]
            ELSE LET a == Max(prev(p))
                     b == Min(next(p))
                 IN  H[a] + ((H[b] - H[a]) * (p - a)) \div (b - a)]

\* np.where(cond, x, y) with a scalar or an array x
where(cond, x, y) == [p \in 1..Len(y) |-> IF cond[p] THEN x[p] ELSE y[p]]
where_scalar(cond, c, y) == [p \in 1..Len(y) |-> IF cond[p] THEN c ELSE y[p]]

\* faulty variant: the interpolated series is returned as it is
fill_small_gaps_mut(H, dt, mgl) == interpolate_linear(H)

\* utils.py 250-284
fill_small_gaps(H, dt, mgl) ==
    where(get_small_gap_idxs(H, dt, mgl), interpolate_linear(H), H)

\* ------------------------------------------ deltasnow_snowpack_evolution
\* core.py is not part of the sources at hand; the engine follows the
\* design of section 4.5: a stack of layers (bottom first), each with a
\* thickness h and a density rho, a seed layer, per step one of
\* accumulate / ablate / hold, then compaction of every surviving layer.
tau == 6
rho_null == 1
rho_max == 4

RECURSIVE SumSeq(_)
SumSeq(s) == IF s = <<>> THEN 0 ELSE s[Len(s)] + SumSeq(SubSeq(s, 1, Len(s) - 1))

mass(l) == l.h * l.rho
total_mass(layers) == SumSeq([j \in 1..Len(layers) |-> mass(layers[j])])

\* the three tagged outcomes of a step
classify(prevH, curH) ==
    LET delta == curH - prevH
    IN  IF delta > tau THEN "accumulate"
        ELSE IF delta < -tau THEN "ablate"
        ELSE "hold"

\* take `amount` of depth off the stack, top layer first
RECURSIVE RemoveFromTop(_, _)
RemoveFromTop(layers, amount) ==
    IF layers = <<>> \/ amount <= 0 THEN layers
    ELSE LET top == layers[Len(layers)]
             rest == SubSeq(layers, 1, Len(layers) - 1)
         IN  IF top.h > amount THEN Append(rest, [top EXCEPT !.h = @ - amount])
             ELSE RemoveFromTop(rest, amount - top.h)

\* faulty variant: the layer gets thinner but not denser
compact_mut(l) ==
    IF l.h % 2 = 0 /\ 2 * l.rho <= rho_max
    THEN [h |-> l.h \div 2, rho |-> l.rho]
    ELSE l

\* one time step of compaction of one layer: density moves toward rho_max
\* and thickness gives way by the same factor, so that h * rho stays
compact(l) ==
    IF l.h % 2 = 0 /\ 2 * l.rho <= rho_max
    THEN [h |-> l.h \div 2, rho |-> 2 * l.rho]
    ELSE l

\* the mass of the layers above layer j
overburden(layers, j) == total_mass(SubSeq(layers, j + 1, Len(layers)))

\* every layer that carries a load compacts
compaction(layers) ==
    [j \in 1..Len(layers) |->
        IF overburden(layers, j) > 0 THEN compact(layers[j]) ELSE layers[j]]

\* faulty variant: no tolerance, every rise makes a layer and every drop
\* takes snow away
EngineStep_mut(layers, prevH, curH) ==
    LET delta == curH - prevH
    IN  compaction(IF delta > 0
                   THEN Append(layers, [h |-> delta, rho |-> rho_null])
                   ELSE IF delta < 0 THEN RemoveFromTop(layers, -delta)
                   ELSE layers)

EngineStep(layers, prevH, curH) ==
    LET delta == curH - prevH
        outcome == classify(prevH, curH)
    IN  compaction(IF outcome = "accumulate"
                   THEN Append(layers, [h |-> delta, rho |-> rho_null])
                   ELSE IF outcome = "ablate"
                   THEN RemoveFromTop(layers, -delta)
                   ELSE layers)

\* the seed layer: as thick as the first depth, fresh-snow density
SeedLayers(Hc) == <<[h |-> Hc[1], rho |-> rho_null]>>

RECURSIVE EngineLoop(_, _, _, _)
EngineLoop(Hc, i, layers, out) ==
    IF i > Len(Hc) THEN out
    ELSE LET l2 == EngineStep(layers, Hc[i - 1], Hc[i])
         IN  EngineLoop(Hc, i + 1, l2, Append(out, total_mass(l2)))

deltasnow_snowpack_evolution(Hc) ==
    IF Len(Hc) = 0 THEN <<>>
    ELSE EngineLoop(Hc, 2, SeedLayers(Hc), <<total_mass(SeedLayers(Hc))>>)

\* ======================================================== the state
VARIABLES
    hs, date,                  \* the input rows, in input order
    shape,                     \* what kind of object / units the caller passed
    ignore_zeropadded_gaps, ignore_trailingzero_gaps,
    interpolate_small_gaps, max_gap_length,
    pc,                        \* position in swe_delta_snow / in a utility call
    Hobs, dates,               \* the sorted depth and timestamp arrays
    zeropadded_gap_idxs,       \* the gap mask (all false until computed)
    start_idxs, stop_idxs,     \* chunk boundaries
    continuous, resolution,    \* outcome of the date continuity checks
    swe,                       \* swe_allocation, filled chunk by chunk
    k,                         \* chunks evaluated so far
    result,                    \* how the call ended: a series or the error
    series,                    \* the values of the returned series
    evaluated,                 \* the chunks whose SWE has been written
    layers,                    \* the Snowpack State of a running engine
    op, ret                    \* utility called directly, and what it returned

vars == <<hs, date, shape, ignore_zeropadded_gaps, ignore_trailingzero_gaps,
          interpolate_small_gaps, max_gap_length, pc, Hobs, dates,
          zeropadded_gap_idxs, start_idxs, stop_idxs, continuous, resolution,
          swe, k, result, series, evaluated, layers, op, ret>>

inputs == <<hs, date, shape, ignore_zeropadded_gaps, ignore_trailingzero_gaps,
            interpolate_small_gaps, max_gap_length>>
locals == <<Hobs, dates, zeropadded_gap_idxs, start_idxs, stop_idxs,
            continuous, resolution, swe, k, series, evaluated, layers>>

Shapes == {"DataFrame", "Series", "other_type", "Series_without_DatetimeIndex",
           "DataFrame_without_hs", "bad_hs_input_unit", "bad_swe_output_unit"}

RECURSIVE PrefixSum(_, _)
PrefixSum(g, i) == IF i = 0 THEN 0 ELSE g[i] + PrefixSum(g, i - 1)
\* the timestamps with consecutive differences g, starting at 0
DatesOf(g, n) == [i \in 1..n |-> PrefixSum(g, i - 1)]
Reverse(s) == [i \in 1..Len(s) |-> s[Len(s) + 1 - i]]

NotChecked == [whole |-> FALSE, chunked |-> FALSE, by_chunks |-> FALSE]
NoResult == [kind |-> "none", msg |-> ""]
Raise(kind, msg) == [kind |-> kind, msg |-> msg]

InitLocals ==
    /\ Hobs = <<>> /\ dates = <<>> /\ zeropadded_gap_idxs = <<>>
    /\ start_idxs = <<>> /\ stop_idxs = <<>> /\ resolution = 0
    /\ continuous = NotChecked
    /\ swe = <<>> /\ k = 0 /\ result = NoResult /\ series = <<>>
    /\ evaluated = {} /\ layers = <<>>
    /\ op = "" /\ ret = [v |-> 0]

\* a call of swe_delta_snow on a DataFrame with date-ordered rows: any
\* series up to MaxLen rows, any flag combination
InitCall ==
    /\ \E n \in 1..MaxLen :
       \E h \in [1..n -> DepthValues], g \in [1..(n - 1) -> Steps] :
            /\ hs = h
            /\ date = DatesOf(g, n)
    /\ ignore_zeropadded_gaps \in BOOLEAN
    /\ ignore_trailingzero_gaps \in BOOLEAN
    /\ interpolate_small_gaps \in BOOLEAN
    /\ max_gap_length \in 1..MaxGap
    /\ shape = "DataFrame"
    /\ pc = "start"
    /\ InitLocals

\* the same series with the rows in descending date order, or passed as a
\* pd.Series with a DatetimeIndex; no gap is ignored
InitUnsorted ==
    /\ \E n \in 1..MaxLen :
       \E h \in [1..n -> DepthValues], g \in [1..(n - 1) -> Steps] :
            /\ hs = Reverse(h)
            /\ date = Reverse(DatesOf(g, n))
    /\ ignore_zeropadded_gaps = FALSE
    /\ ignore_trailingzero_gaps = FALSE
    /\ interpolate_small_gaps \in BOOLEAN
    /\ max_gap_length = MaxGap
    /\ shape \in {"DataFrame", "Series"}
    /\ pc = "start"
    /\ InitLocals

\* the malformed calls: a wrong object, a missing column, an unknown unit,
\* a negative depth
InitMalformed ==
    /\ \/ /\ shape \in Shapes \ {"DataFrame", "Series"}
          /\ hs = <<0, 12, 0>>
       \/ /\ shape = "DataFrame"
          /\ hs \in {<<0, -12, 0>>, <<-12, 0, 0>>, <<0, 0, -12>>}
    /\ date = DatesOf([i \in 1..2 |-> Day], 3)
    /\ ignore_zeropadded_gaps = FALSE
    /\ ignore_trailingzero_gaps = FALSE
    /\ interpolate_small_gaps \in BOOLEAN
    /\ max_gap_length = 1
    /\ pc = "start"
    /\ InitLocals

Init == InitCall \/ InitUnsorted \/ InitMalformed

\* a direct call of one utility on any depth vector and timestamps
InitUtils ==
    /\ \E n \in 1..MaxLen :
       \E h \in [1..n -> DepthValues], g \in [1..(n - 1) -> Steps] :
            /\ hs = h
            /\ date = DatesOf(g, n)
    /\ ignore_zeropadded_gaps = FALSE
    /\ ignore_trailingzero_gaps = FALSE
    /\ interpolate_small_gaps = FALSE
    /\ max_gap_length \in 1..MaxGap
    /\ shape = "DataFrame"
    /\ pc = "ready"
    /\ InitLocals

\* ============================================== swe_delta_snow, by stage
\* data.sort_values(by='date'): rows as <<date, hs>> pairs, ascending by date
RECURSIVE InsertRow(_, _)
InsertRow(sorted, r) ==
    IF sorted = <<>> THEN <<r>>
    ELSE IF r[1] < sorted[1][1] THEN <<r>> \o sorted
    ELSE <<sorted[1]>> \o InsertRow(Tail(sorted), r)

RECURSIVE SortRows(_)
SortRows(rows) ==
    IF rows = <<>> THEN <<>>
    ELSE InsertRow(SortRows(SubSeq(rows, 1, Len(rows) - 1)), rows[Len(rows)])

sort_values(h, d) == SortRows([i \in 1..Len(h) |-> <<d[i], h[i]>>])

\* a call f(Hobs, **kwargs) of get_zeropadded_gap_idxs, whose signature
\* (utils.py 127) is (Hobs): any further argument makes the call raise
\* TypeError before the body runs
call_get_zeropadded_gap_idxs(H, extra_args) ==
    IF extra_args # {}
    THEN [raised |-> "TypeError", value |-> <<>>]
    ELSE [raised |-> "", value |-> get_zeropadded_gap_idxs(H)]

\* faulty variant: NaN entries are skipped by the sign check
all_nonnegative_mut(H) == \A p \in 1..Len(H) : isnan(H[p]) \/ H[p] >= 0
\* main.py 296  np.all(Hobs >= 0): a NaN compares false
all_nonnegative(H) == \A p \in 1..Len(H) : ~isnan(H[p]) /\ H[p] >= 0

\* faulty variant: the check looks at the last observation
starts_nonzero_mut(H) == At(H, Len(H) - 1) # 0
\* main.py 302  Hobs[0] != 0
starts_nonzero(H) == At(H, 0) # 0

Fail(r) ==
    /\ result' = r
    /\ pc' = "done"

\* main.py 229-256: unit assertions, type and column checks, sort, to metres
Validate ==
    /\ pc = "start"
    /\ UNCHANGED <<inputs, op, ret, layers, evaluated, zeropadded_gap_idxs, start_idxs, stop_idxs,
                   continuous, resolution, swe, k, series>>
    /\ IF shape = "bad_hs_input_unit" \/ shape = "bad_swe_output_unit"
       THEN Fail(Raise("AssertionError", "unit has to be in {'mm', 'cm', 'm'}"))
            /\ UNCHANGED <<Hobs, dates>>
       ELSE IF shape = "other_type"
       THEN Fail(Raise("ValueError", "data must be pd.DataFrame or pd.Series"))
            /\ UNCHANGED <<Hobs, dates>>
       ELSE IF shape = "Series_without_DatetimeIndex"
       THEN Fail(Raise("ValueError", "pd.Series needs pd.DatetimeIndex as index."))
            /\ UNCHANGED <<Hobs, dates>>
       ELSE IF shape = "DataFrame_without_hs"
       THEN Fail(Raise("ValueError", "data must contain columns 'hs' and 'date'"))
            /\ UNCHANGED <<Hobs, dates>>
       ELSE LET rows == sort_values(hs, date)
            IN  /\ dates' = [i \in 1..Len(rows) |-> rows[i][1]]
                /\ Hobs' = [i \in 1..Len(rows) |-> rows[i][2]]
                /\ pc' = "gaps"
                /\ UNCHANGED result

\* main.py 258-276: gap classification and resolution
ResolveGaps ==
    /\ pc = "gaps"
    /\ UNCHANGED <<inputs, op, ret, layers, evaluated, dates, start_idxs, stop_idxs, continuous,
                   resolution, swe, k, series>>
    /\ LET wanted == ignore_zeropadded_gaps \/ ignore_trailingzero_gaps
           call == call_get_zeropadded_gap_idxs(Hobs, {"require_leading_zero"})
       IN  IF wanted /\ call.raised # ""
           THEN /\ Fail(Raise(call.raised, "get_zeropadded_gap_idxs: unexpected argument"))
                /\ UNCHANGED <<Hobs, zeropadded_gap_idxs>>
           ELSE LET H1 == IF wanted THEN where_scalar(call.value, 0, Hobs)
                          ELSE Hobs
                    H2 == IF has_nan(H1) /\ interpolate_small_gaps
                          THEN fill_small_gaps(H1, dates, max_gap_length)
                          ELSE H1
                IN  /\ zeropadded_gap_idxs' =
                          IF wanted THEN call.value ELSE zeropadded_gap_idxs
                    /\ Hobs' = H2
                    /\ pc' = "check"
                    /\ UNCHANGED result

\* main.py 278-305: remaining NaN, sign, numeric and leading-zero checks
\* (np.isreal is true of every float)
CheckValues ==
    /\ pc = "check"
    /\ UNCHANGED <<inputs, op, ret, layers, locals>>
    /\ LET has_nans == has_nan(Hobs)
       IN  IF has_nans /\ ~ignore_zeropadded_gaps /\ ~interpolate_small_gaps
           THEN Fail(Raise("ValueError", "snow depth data must not be NaN."))
           ELSE IF has_nans /\ ignore_zeropadded_gaps /\ ~interpolate_small_gaps
           THEN Fail(Raise("ValueError", "your data contains NaNs surrounded by non-zeros."))
           ELSE IF has_nans /\ ignore_zeropadded_gaps /\ interpolate_small_gaps
           THEN Fail(Raise("ValueError", "gaps at the end or beginning or longer than max_gap_length"))
           ELSE IF ~all_nonnegative(Hobs)
           THEN Fail(Raise("ValueError", "snow depth data must be positive"))
           ELSE IF starts_nonzero(Hobs)
           THEN Fail(Raise("ValueError", "snow depth observations must start with 0"))
           ELSE /\ pc' = "chunks"
                /\ UNCHANGED result

\* main.py 307-321: chunk boundaries, date continuity, output allocation
Chunks ==
    /\ pc = "chunks"
    /\ UNCHANGED <<inputs, op, ret, layers, evaluated, Hobs, dates, zeropadded_gap_idxs, k, series>>
    /\ \E u \in Uninit :
        LET ch == get_nonzero_chunk_idxs(Hobs)
            c1 == continuous_timedeltas(dates, u)
            c2 == continuous_timedeltas_in_nonzero_chunks(
                      dates, ch.start_idxs, ch.stop_idxs, u)
        IN  /\ start_idxs' = ch.start_idxs
            /\ stop_idxs' = ch.stop_idxs
            /\ continuous' = [whole |-> c1.continuous,
                              by_chunks |-> ~c1.continuous,
                              chunked |-> ~c1.continuous /\ c2.continuous]
            /\ resolution' = IF c1.continuous THEN c1.resolution
                             ELSE c2.resolution
            /\ IF c1.continuous \/ c2.continuous
               THEN /\ swe' = [p \in 1..Len(Hobs) |-> 0]
                    /\ pc' = "engine"
                    /\ UNCHANGED result
               ELSE /\ Fail(Raise("ValueError", "date column must be strictly regular within chunks"))
                    /\ UNCHANGED swe

\* number of (start, stop) pairs zip() yields
NPairs == IF Len(stop_idxs) < Len(start_idxs) THEN Len(stop_idxs)
          ELSE Len(start_idxs)

\* faulty variant: the chunk lands one index late
write_chunk_mut(swe_out, start, stop, chunk) ==
    [p \in 1..Len(swe_out) |->
        IF start < p - 1 /\ p - 1 <= stop THEN chunk[p - 1 - start]
        ELSE swe_out[p]]

\* faulty variant: the slice assignment runs to the end of the vector
write_chunk_mut2(swe_out, start, stop, chunk) ==
    [p \in 1..Len(swe_out) |->
        IF start <= p - 1 /\ p - 1 < stop THEN chunk[p - start]
        ELSE IF stop <= p - 1 THEN 0
        ELSE swe_out[p]]

\* main.py 106: swe_out[start:stop] = ...
write_chunk(swe_out, start, stop, chunk) ==
    [p \in 1..Len(swe_out) |->
        IF start <= p - 1 /\ p - 1 < stop THEN chunk[p - start]
        ELSE swe_out[p]]

\* main.py 105-116: the body of the loop for the c-th (start, stop) pair
EvaluateChunk(c) ==
    /\ UNCHANGED <<inputs, op, ret, layers, Hobs, dates, zeropadded_gap_idxs,
                   start_idxs, stop_idxs, continuous, resolution, result,
                   series, pc>>
    /\ LET start == start_idxs[c]
           stop == stop_idxs[c]
           chunk == deltasnow_snowpack_evolution(Slice(Hobs, start, stop))
       IN  swe' = write_chunk(swe, start, stop, chunk)
    /\ evaluated' = evaluated \cup {c}
    /\ k' = k + 1

\* main.py 46-118: the loop run from pair c to the last pair, in zip() order
RECURSIVE deltasnow_on_nonzero_chunks(_, _, _, _, _)
deltasnow_on_nonzero_chunks(H, swe_out, starts, stops, c) ==
    IF c > Len(starts) \/ c > Len(stops) THEN swe_out
    ELSE deltasnow_on_nonzero_chunks(
             H,
             write_chunk(swe_out, starts[c], stops[c],
                         deltasnow_snowpack_evolution(
                             Slice(H, starts[c], stops[c]))),
             starts, stops, c + 1)

\* main.py 105-116: one pass of the loop over the chunks, in zip() order
EngineChunk ==
    /\ pc = "engine"
    /\ k < NPairs
    /\ EvaluateChunk(k + 1)

\* swe * 0.001 / UNIT_FACTOR['mm']
to_output_unit(x) == IF isnan(x) THEN NaN ELSE (x * 1) \div 1

\* main.py 118, 338-349: restore the gaps, convert, return the series
Return ==
    /\ pc = "engine"
    /\ k >= NPairs
    /\ UNCHANGED <<inputs, op, ret, layers, evaluated, Hobs, dates, zeropadded_gap_idxs,
                   start_idxs, stop_idxs, continuous, resolution, swe, k>>
    /\ LET masked == IF ignore_zeropadded_gaps \/ ignore_trailingzero_gaps
                     THEN where_scalar(zeropadded_gap_idxs, NaN, swe)
                     ELSE swe
       IN  series' = [p \in 1..Len(masked) |-> to_output_unit(masked[p])]
    /\ result' = [kind |-> "Series", msg |-> ""]
    /\ pc' = "done"

Next == Validate \/ ResolveGaps \/ CheckValues \/ Chunks \/ EngineChunk \/ Return

Spec == Init /\ [][Next]_vars

\* ================================================ direct utility calls
Returned(name, r) ==
    /\ pc = "ready"
    /\ op' = name
    /\ ret' = r
    /\ pc' = "returned"
    /\ UNCHANGED <<inputs, locals, result>>

\* continuous_timedeltas(dates[:n])
Call_continuous_timedeltas ==
    \E n \in 0..Len(date), u \in Uninit :
        LET dr == SubSeq(date, 1, n)
            r == continuous_timedeltas(dr, u)
        IN  Returned("continuous_timedeltas",
                     [dr |-> dr, continuous |-> r.continuous,
                      resolution |-> r.resolution])

\* get_nonzero_chunk_idxs(hs)
Call_get_nonzero_chunk_idxs ==
    Returned("get_nonzero_chunk_idxs", get_nonzero_chunk_idxs(hs))

\* get_zeropadded_gap_idxs(hs), get_zeropadded_gap_idxs(hs, True),
\* get_zeropadded_gap_idxs(hs, False)
Call_get_zeropadded_gap_idxs ==
    \E require_leading_zero \in {"not passed", "True", "False"} :
        LET extra == IF require_leading_zero = "not passed" THEN {}
                     ELSE {"require_leading_zero"}
            c == call_get_zeropadded_gap_idxs(hs, extra)
        IN  Returned("get_zeropadded_gap_idxs",
                     [require_leading_zero |-> require_leading_zero,
                      raised |-> c.raised, value |-> c.value])

\* get_small_gap_idxs(hs, date, max_gap_length)
Call_get_small_gap_idxs ==
    Returned("get_small_gap_idxs",
             [value |-> get_small_gap_idxs(hs, date, max_gap_length)])

\* fill_small_gaps(hs, date, max_gap_length)
Call_fill_small_gaps ==
    Returned("fill_small_gaps",
             [value |-> fill_small_gaps(hs, date, max_gap_length)])

NextUtils ==
    \/ Call_continuous_timedeltas
    \/ Call_get_nonzero_chunk_idxs
    \/ Call_get_zeropadded_gap_idxs
    \/ Call_get_small_gap_idxs
    \/ Call_fill_small_gaps

SpecUtils == InitUtils /\ [][NextUtils]_vars

\* ================================= the chunks evaluated in any order
\* the loop of main.py 105-116 with its passes taken in an arbitrary order,
\* as a pool of workers would take them
EngineChunkAnyOrder ==
    /\ pc = "engine"
    /\ \E c \in (1..NPairs) \ evaluated : EvaluateChunk(c)

InitParallel ==
    /\ InitCall
    /\ ~ignore_zeropadded_gaps
    /\ ~ignore_trailingzero_gaps
    /\ max_gap_length = MaxGap

NextParallel ==
    Validate \/ ResolveGaps \/ CheckValues \/ Chunks \/ EngineChunkAnyOrder
        \/ Return

SpecParallel == InitParallel /\ [][NextParallel]_vars

\* ======================================== the engine, sample by sample
\* what the orchestrator dispatches: a bare-ground sample followed by
\* snow; the depths between the multiples of 12 come from interpolation
ChunkDepths == {6, 12, 18, 24}

InitEngine ==
    /\ \E n \in 2..MaxLen :
       \E h \in [2..n -> ChunkDepths] :
            /\ hs = [p \in 1..n |-> IF p = 1 THEN 0 ELSE h[p]]
            /\ date = DatesOf([i \in 1..(n - 1) |-> Day], n)
    /\ ignore_zeropadded_gaps = FALSE
    /\ ignore_trailingzero_gaps = FALSE
    /\ interpolate_small_gaps = FALSE
    /\ max_gap_length = MaxGap
    /\ shape = "DataFrame"
    /\ pc = "seed"
    /\ InitLocals

\* the first sample seeds the Snowpack State and emits its mass
EngineSeed ==
    /\ pc = "seed"
    /\ Hobs' = hs
    /\ layers' = SeedLayers(hs)
    /\ swe' = <<total_mass(SeedLayers(hs))>>
    /\ k' = 1
    /\ pc' = "step"
    /\ UNCHANGED <<inputs, op, ret, dates, zeropadded_gap_idxs, start_idxs,
                   stop_idxs, continuous, resolution, result, series,
                   evaluated>>

\* one observation after the first: classify, change the stack, compact,
\* emit the mass
EngineAdvance ==
    /\ pc = "step"
    /\ k < Len(Hobs)
    /\ layers' = EngineStep(layers, Hobs[k], Hobs[k + 1])
    /\ swe' = Append(swe, total_mass(layers'))
    /\ k' = k + 1
    /\ UNCHANGED <<inputs, op, ret, Hobs, dates, zeropadded_gap_idxs,
                   start_idxs, stop_idxs, continuous, resolution, result,
                   series, evaluated, pc>>

\* the samples are exhausted: the SWE vector is handed back and the
\* Snowpack State is discarded
EngineEmit ==
    /\ pc = "step"
    /\ k >= Len(Hobs)
    /\ series' = swe
    /\ layers' = <<>>
    /\ pc' = "emitted"
    /\ UNCHANGED <<inputs, op, ret, Hobs, dates, zeropadded_gap_idxs,
                   start_idxs, stop_idxs, continuous, resolution, result,
                   swe, k, evaluated>>

NextEngine == EngineSeed \/ EngineAdvance \/ EngineEmit

SpecEngine == InitEngine /\ [][NextEngine]_vars

\* ============================================================ properties
\* the elements of a finite set of integers in ascending order
RECURSIVE Ascending(_)
Ascending(S) ==
    IF S = {} THEN <<>>
    ELSE LET m == CHOOSE x \in S : \A y \in S : x <= y
         IN  <<m>> \o Ascending(S \ {m})

\* first and last position (1-based) of the maximal run of NaN around p
RunLo(H, p) == CHOOSE a \in 1..p :
    /\ \A q \in a..p : isnan(H[q])
    /\ (a = 1 \/ ~isnan(H[a - 1]))
RunHi(H, p) == CHOOSE b \in p..Len(H) :
    /\ \A q \in p..b : isnan(H[q])
    /\ (b = Len(H) \/ ~isnan(H[b + 1]))

\* every pair of consecutive differences of d[a..b] agrees
EvenlySpaced(d, a, b) ==
    \A i, j \in a..(b - 1) : d[i + 1] - d[i] = d[j + 1] - d[j]

\* C1: on a depth vector without missing values get_nonzero_chunk_idxs
\* returns as starts 0 (if the first value is nonzero) followed by every i
\* with value[i] = 0 and value[i+1] # 0, ascending, and as stops every j
\* with value[j] = 0 and value[j-1] # 0, ascending, followed by the length
\* exactly when the series ends inside a nonzero run.
C1_ChunkBoundaries ==
    (op = "get_nonzero_chunk_idxs" /\ ~has_nan(hs)) =>
        LET n == Len(hs)
            rises == {i \in 0..(n - 2) : At(hs, i) = 0 /\ At(hs, i + 1) # 0}
            falls == {j \in 1..(n - 1) : At(hs, j) = 0 /\ At(hs, j - 1) # 0}
        IN  /\ ret.start_idxs =
                 (IF At(hs, 0) # 0 THEN <<0>> ELSE <<>>) \o Ascending(rises)
            /\ ret.stop_idxs =
                 Ascending(falls) \o (IF At(hs, n - 1) # 0 THEN <<n>> ELSE <<>>)

\* a vector that starts nonzero, falls to zero, rises again and ends nonzero
C1_Witness ==
    /\ op = "get_nonzero_chunk_idxs" /\ ~has_nan(hs)
    /\ Len(ret.start_idxs) = 2 /\ ret.start_idxs[1] = 0
    /\ ret.stop_idxs[2] = Len(hs)

C4_SmallGapMask ==
    op = "get_small_gap_idxs" =>
        \A p \in 1..Len(hs) :
            ret.value[p] <=>
                /\ isnan(hs[p])
                /\ RunLo(hs, p) > 1
                /\ RunHi(hs, p) < Len(hs)
                /\ RunHi(hs, p) - RunLo(hs, p) + 1 <= max_gap_length
                /\ EvenlySpaced(date, RunLo(hs, p) - 1, RunHi(hs, p) + 1)

\* a marked interior gap of two samples
C4_Witness ==
    /\ op = "get_small_gap_idxs"
    /\ \E p \in 1..(Len(hs) - 1) : ret.value[p] /\ ret.value[p + 1]

\* C3: called with require_leading_zero = False, get_zeropadded_gap_idxs
\* returns a mask that marks a maximal run of missing values exactly when
\* the run is followed by a zero or reaches the end of the series, whatever
\* precedes it.
C3_TrailingZeroMask ==
    (op = "get_zeropadded_gap_idxs" /\ ret.require_leading_zero = "False") =>
        /\ ret.raised = ""
        /\ \A p \in 1..Len(hs) :
            ret.value[p] <=>
                /\ isnan(hs[p])
                /\ (RunHi(hs, p) = Len(hs) \/ hs[RunHi(hs, p) + 1] = 0)

\* C8: continuous_timedeltas on two or more timestamps reports continuous
\* exactly when all consecutive differences are identical, with the first
\* difference in hours as resolution; on at most one timestamp it reports
\* continuous with no resolution value.
C8_ContinuousTimedeltas ==
    op = "continuous_timedeltas" =>
        IF Len(ret.dr) >= 2
        THEN /\ ret.continuous <=> EvenlySpaced(ret.dr, 1, Len(ret.dr))
             /\ ret.resolution * ONE_HOUR = ret.dr[2] - ret.dr[1]
        ELSE /\ ret.continuous
             /\ ret.resolution \notin Int

\* the date-ordered first present depth of the input is not zero
FirstPresentNonzero ==
    \E i \in 1..Len(hs) :
        /\ ~isnan(hs[i]) /\ hs[i] # 0
        /\ \A j \in 1..Len(hs) : ~isnan(hs[j]) => date[i] <= date[j]

WellFormed == shape \in {"DataFrame", "Series"}
Failed == pc = "done" /\ result.kind \notin {"Series", "none"}

\* C5: with an ignore mode on, every position the gap classifier marks (and
\* the orchestrator sets to zero depth) is NaN in the returned SWE series,
\* for every series that is valid once the marked gaps are set to zero.
C5_MaskedPositionsMissing ==
    LET mask == get_zeropadded_gap_idxs(Hobs)
        zeroed == where_scalar(mask, 0, Hobs)
    IN  ( /\ pc = "done" /\ WellFormed
          /\ (ignore_zeropadded_gaps \/ ignore_trailingzero_gaps)
          /\ (\E p \in 1..Len(mask) : mask[p])
          /\ (\E p \in 1..Len(Hobs) : ~isnan(Hobs[p]))
          /\ \A p \in 1..Len(zeroed) : ~isnan(zeroed[p]) /\ zeroed[p] >= 0
          /\ zeroed[1] = 0
          /\ EvenlySpaced(dates, 1, Len(dates)) )
        => /\ result.kind = "Series"
           /\ \A p \in 1..Len(mask) : mask[p] => isnan(series[p])

\* C6: for every flag combination, a depth still missing after gap
\* resolution makes the call fail with an error: no state past the value
\* checks holds a NaN depth unless the call has failed.
C6_RemainingNaNFails ==
    (pc \notin {"start", "gaps", "check"} /\ has_nan(Hobs)) => Failed

\* interpolation on, zero-padded mode off: a gap too long to interpolate is
\* rejected by the sign check, none of the three NaN branches applying
C6_Witness ==
    /\ pc = "done" /\ has_nan(Hobs)
    /\ interpolate_small_gaps /\ ~ignore_zeropadded_gaps
    /\ ~ignore_trailingzero_gaps
    /\ result = Raise("ValueError", "snow depth data must be positive")

\* C7: whenever the first non-missing depth of the date-ordered input is
\* not zero, the call fails with an error, for every flag combination.
C7_NonzeroStartFails ==
    (pc = "done" /\ FirstPresentNonzero) => Failed

\* rows given in descending date order whose earliest depth is nonzero: the
\* leading-zero check fires on the sorted series
C7_Witness ==
    /\ pc = "done" /\ FirstPresentNonzero
    /\ Len(hs) >= 2 /\ date[1] > date[2] /\ hs[1] = 0
    /\ result = Raise("ValueError", "snow depth observations must start with 0")

\* C9: when the chunked check is consulted, it reports continuity exactly
\* when every chunk's timestamps dates[start:stop] are evenly spaced and all
\* chunks have the same first difference in hours; when it reports false the
\* call fails with the continuity error.
C9_ChunkedContinuity ==
    continuous.by_chunks =>
        LET K == 1..Len(start_idxs)
            reg(c) == EvenlySpaced(dates, start_idxs[c] + 1, stop_idxs[c])
            res(c) == (dates[start_idxs[c] + 2] - dates[start_idxs[c] + 1])
                      \div ONE_HOUR
        IN  /\ Len(stop_idxs) = Len(start_idxs)
            /\ continuous.chunked <=>
                 ((\A c \in K : reg(c)) /\ (\A c, d \in K : res(c) = res(d)))
            /\ ~continuous.chunked =>
                 /\ pc = "done"
                 /\ result = Raise("ValueError", "date column must be strictly regular within chunks")

\* two chunks, each evenly spaced, with different sampling intervals
C9_Witness ==
    /\ continuous.by_chunks /\ ~continuous.chunked
    /\ Len(start_idxs) = 2
    /\ \A c \in 1..2 : EvenlySpaced(dates, start_idxs[c] + 1, stop_idxs[c])
    /\ result.kind = "ValueError"

\* C10: for every series whose depths are all zero the call returns a SWE
\* series of the same length that is zero at every index.
C10_AllZeroGivesZero ==
    (pc = "done" /\ WellFormed /\ \A i \in 1..Len(hs) : hs[i] = 0) =>
        /\ result.kind = "Series"
        /\ Len(series) = Len(hs)
        /\ \A p \in 1..Len(series) : series[p] = 0

\* C11: a call that fails on a violated precondition - wrong input type,
\* missing column, unsupported unit, missing or negative depth, nonzero
\* first depth, irregular timestamps - always ends in a ValueError.  The
\* calls with a gap-ignoring flag are left aside: they fail for a reason
\* of their own.
C11_SingleErrorKind ==
    (/\ pc = "done"
     /\ result.kind # "Series"
     /\ ~ignore_zeropadded_gaps
     /\ ~ignore_trailingzero_gaps) => result.kind = "ValueError"

\* the index p (from 0) lies in the range of the c-th chunk
InChunk(p, c) == start_idxs[c] <= p /\ p < stop_idxs[c]

\* C12: when the call returns a series, the SWE vector is as long as the
\* input, holds at every chunk's range [start, stop) the SWE the engine
\* gave for that chunk's depths, and is zero at every index outside all
\* ranges.
C12_Reassembly ==
    (pc = "done" /\ result.kind = "Series") =>
        /\ Len(swe) = Len(hs)
        /\ Len(series) = Len(hs)
        /\ \A c \in 1..NPairs :
              Slice(swe, start_idxs[c], stop_idxs[c]) =
                  deltasnow_snowpack_evolution(
                      Slice(Hobs, start_idxs[c], stop_idxs[c]))
        /\ \A p \in 0..(Len(swe) - 1) :
              (\A c \in 1..NPairs : ~InChunk(p, c)) => swe[p + 1] = 0

\* a returned series with a chunk of nonzero SWE that starts after index 0
\* and ends before the last index
C12_Witness ==
    /\ pc = "done" /\ result.kind = "Series"
    /\ \E c \in 1..NPairs :
          /\ start_idxs[c] > 0
          /\ stop_idxs[c] < Len(swe)
          /\ \E p \in 0..(Len(swe) - 1) : InChunk(p, c) /\ swe[p + 1] > 0

\* C13: on a depth vector without missing values the start and stop lists
\* of get_nonzero_chunk_idxs are equally long, every chunk has
\* start < stop, and every chunk stops no later than the next one starts.
C13_ChunkRangesOrdered ==
    (op = "get_nonzero_chunk_idxs" /\ ~has_nan(hs)) =>
        LET s == ret.start_idxs
            t == ret.stop_idxs
        IN  /\ Len(s) = Len(t)
            /\ \A c \in 1..Len(s) : s[c] < t[c]
            /\ \A c \in 1..(Len(s) - 1) : t[c] <= s[c + 1]

\* two chunks, the second starting at the zero where the first stops and
\* running to the end of the series
C13_Witness ==
    /\ op = "get_nonzero_chunk_idxs" /\ ~has_nan(hs)
    /\ Len(ret.start_idxs) = 2
    /\ ret.stop_idxs[1] = ret.start_idxs[2]
    /\ ret.stop_idxs[2] = Len(hs)

\* the depths handed to the engine for the c-th chunk
Dispatched(c) == Slice(Hobs, start_idxs[c], stop_idxs[c])

\* C14 as stated: every depth vector Hobs[start:stop] handed to the engine
\* holds strictly positive values only.
C14_OnlyPositiveDispatched ==
    pc = "engine" =>
        \A c \in 1..NPairs :
            \A j \in 1..Len(Dispatched(c)) : Dispatched(c)[j] > 0

\* C14: every depth vector Hobs[start:stop] handed to the engine starts
\* with one zero, the bare-ground sample right before the rise, and holds
\* strictly positive values from its second sample on.
C14_LeadingZeroThenPositive ==
    pc = "engine" =>
        \A c \in 1..NPairs :
            /\ Len(Dispatched(c)) >= 2
            /\ Dispatched(c)[1] = 0
            /\ \A j \in 2..Len(Dispatched(c)) : Dispatched(c)[j] > 0

\* a chunk of a zero and two snow samples has been evaluated
C14_Witness ==
    /\ pc = "engine"
    /\ \E c \in evaluated :
          /\ Len(Dispatched(c)) = 3
          /\ Dispatched(c)[2] > 0

\* what the sequential loop of main.py 105-118 leaves in swe_allocation
SequentialSWE ==
    deltasnow_on_nonzero_chunks(Hobs, [p \in 1..Len(Hobs) |-> 0],
                                start_idxs, stop_idxs, 1)

\* C15: with the chunks evaluated and written in any order, at every
\* moment each index of an evaluated chunk holds what the sequential loop
\* puts there and every other index holds zero; so once all chunks are
\* evaluated the SWE vector, and the returned series, is that of the
\* sequential loop.
C15_AnyOrderSameSWE ==
    pc \in {"engine", "done"} /\ result.kind \in {"none", "Series"} =>
        /\ \A p \in 0..(Len(swe) - 1) :
              swe[p + 1] = IF \E c \in evaluated : InChunk(p, c)
                           THEN SequentialSWE[p + 1]
                           ELSE 0
        /\ evaluated = 1..NPairs => swe = SequentialSWE

\* the second of two chunks has been evaluated before the first
C15_Witness ==
    /\ pc = "engine"
    /\ NPairs = 2
    /\ evaluated = {2}
    /\ \E p \in 0..(Len(swe) - 1) : InChunk(p, 2) /\ swe[p + 1] > 0

\* C16: fill_small_gaps returns a vector of the same length that differs
\* from its input only at missing values of a gap that get_small_gap_idxs
\* selects: a gap with a present value on both sides, at most
\* max_gap_length long, with evenly spaced timestamps around it.  Every
\* present value and every other missing value stays as it was.
C16_FillOnlySelected ==
    op = "fill_small_gaps" =>
        /\ Len(ret.value) = Len(hs)
        /\ \A p \in 1..Len(hs) :
              ret.value[p] # hs[p] =>
                  /\ isnan(hs[p])
                  /\ get_small_gap_idxs(hs, date, max_gap_length)[p]
                  /\ RunLo(hs, p) > 1
                  /\ RunHi(hs, p) < Len(hs)
                  /\ RunHi(hs, p) - RunLo(hs, p) + 1 <= max_gap_length
                  /\ EvenlySpaced(date, RunLo(hs, p) - 1, RunHi(hs, p) + 1)

\* one gap is filled while another missing value, which the interpolation
\* alone would have filled, is left missing
C16_Witness ==
    /\ op = "fill_small_gaps"
    /\ \E p, q \in 1..Len(hs) :
          /\ isnan(hs[p]) /\ ~isnan(ret.value[p])
          /\ isnan(hs[q]) /\ isnan(ret.value[q])
          /\ ~isnan(interpolate_linear(hs)[q])

\* the mass of each of the lowest n layers is the same before and after
SameMasses(before, after, n) ==
    \A j \in 1..n : mass(after[j]) = mass(before[j])

\* C17: every engine step after the seed does exactly one of three things,
\* chosen by the depth delta and tau alone.  delta > tau: one new layer of
\* thickness delta and fresh-snow density on top, all layers below keep
\* their mass.  delta < -tau: no new layer, mass is lost, the surviving
\* layers are the lowest ones and all but the topmost of them keep their
\* mass.  |delta| <= tau: the same layers with the same masses.
C17_StepClassification ==
    [][(pc = "step" /\ k' = k + 1) =>
          LET delta == Hobs[k + 1] - Hobs[k]
              n == Len(layers)
              m == Len(layers')
          IN  /\ delta > tau =>
                    /\ m = n + 1
                    /\ SameMasses(layers, layers', n)
                    /\ mass(layers'[m]) = delta * rho_null
              /\ delta < -tau =>
                    /\ m <= n
                    /\ SameMasses(layers, layers', m - 1)
                    /\ m >= 1 => mass(layers'[m]) <= mass(layers[m])
                    /\ total_mass(layers') <= total_mass(layers)
              /\ (-tau <= delta /\ delta <= tau) =>
                    /\ m = n
                    /\ SameMasses(layers, layers', n)]_vars

\* after an accumulation and a hold, an ablation has thinned the top layer
\* without retiring it
C17_Witness ==
    /\ pc = "step" /\ k = 4
    /\ classify(Hobs[1], Hobs[2]) = "accumulate"
    /\ classify(Hobs[2], Hobs[3]) = "hold"
    /\ classify(Hobs[3], Hobs[4]) = "ablate"
    /\ Len(layers) = 2
    /\ total_mass(layers) > 0

\* C18: the SWE emitted within a chunk is never negative and never falls
\* from one sample to the next unless the step is an ablation
\* (delta < -tau); compaction leaves the total mass alone: a hold step
\* emits the SWE of the step before it and an accumulation adds exactly
\* the new layer's mass; so a chunk whose depth never decreases has a
\* non-decreasing SWE sequence.
C18_MassMonotone ==
    pc \in {"step", "emitted"} =>
        /\ \A i \in 1..Len(swe) : swe[i] >= 0
        /\ \A i \in 2..Len(swe) :
              LET delta == Hobs[i] - Hobs[i - 1]
              IN  /\ delta >= -tau => swe[i] >= swe[i - 1]
                  /\ (-tau <= delta /\ delta <= tau) => swe[i] = swe[i - 1]
                  /\ delta > tau => swe[i] = swe[i - 1] + delta * rho_null
        /\ (\A i \in 2..Len(swe) : Hobs[i] >= Hobs[i - 1]) =>
              \A i \in 2..Len(swe) : swe[i] >= swe[i - 1]
        /\ pc = "step" => swe[Len(swe)] = total_mass(layers)

\* the SWE rose twice, a layer with mass was compacted under the second
\* rise, and an ablation then took the SWE down
C18_Witness ==
    /\ pc = "step" /\ k = 4
    /\ swe[2] > swe[1] /\ swe[3] > swe[2] /\ swe[4] < swe[3]
    /\ \E j \in 1..Len(layers) :
          layers[j].rho > rho_null /\ mass(layers[j]) > 0

\* C19: whatever the input vector, the mask of get_zeropadded_gap_idxs has
\* the length of the vector and is true only where the depth is missing,
\* so writing zero at the masked positions leaves every present
\* observation as it was.
C19_MaskOnlyMissing ==
    (op = "get_zeropadded_gap_idxs" /\ ret.raised = "") =>
        /\ Len(ret.value) = Len(hs)
        /\ \A p \in 1..Len(hs) : ret.value[p] => isnan(hs[p])
        /\ \A p \in 1..Len(hs) :
              ~isnan(hs[p]) => where_scalar(ret.value, 0, hs)[p] = hs[p]

\* a vector with present nonzero values between two gaps, the second gap
\* masked
C19_Witness ==
    /\ op = "get_zeropadded_gap_idxs" /\ ret.raised = ""
    /\ \E p, q, r \in 1..Len(hs) :
          /\ p < q /\ q < r
          /\ isnan(hs[p]) /\ ~isnan(hs[q]) /\ hs[q] # 0
          /\ ret.value[r]

====
